---- MODULE Spec2Model ----
(***************************************************************************)
(* The commerce data model of app/models.py: the persistent tables (User,  *)
(* VoucherCode, Order, OrderItem, Payment, WalletTransaction) and the      *)
(* request schemas that validate input for them.                           *)
(*                                                                         *)
(* The file declares columns, column defaults, foreign keys and per-field  *)
(* schema constraints, and nothing else: it declares no validator, check   *)
(* constraint, version column, lock, trigger or exception type.  A table   *)
(* row therefore takes whatever typed values are written to its columns,   *)
(* and a request schema rejects exactly what its Field constraints reject. *)
(* The actions below are the writes this declaration admits.               *)
(*                                                                         *)
(* Money is a fixed-point decimal.  Stored columns are counted in cents;   *)
(* schema inputs are counted in thousandths, so that the decimal_places=2  *)
(* constraint is something a value can fail.                               *)
(***************************************************************************)
EXTENDS Integers, Sequences, FiniteSets, TLC

VARIABLES users, orders, order_items, voucher_codes, payments,
          wallet_transactions, requests, validated

vars == <<users, orders, order_items, voucher_codes, payments,
          wallet_transactions, requests, validated>>

\* Optional[T]: None is the empty tuple, a present value v is <<v>>
None == <<>>

Some(v) == <<v>>

Get(o) == o[1]

-----------------------------------------------------------------------------
(* Bounds of the model.                                                    *)

MaxOrders == 2

MaxItems == 2

MaxCodes == 2

MaxRequests == 3

MaxPayments == 2

MaxLedger == 2

MaxCents == 2

MaxTime == 2

MaxMills == 11

MaxQuantity == 2

-----------------------------------------------------------------------------
(* Enums.                                                                  *)

OrderStatus == {"pending", "processing", "completed", "failed", "cancelled", "refunded"}

PaymentStatus == {"pending", "paid", "failed", "cancelled", "refunded"}

TransactionType == {"deposit", "purchase", "refund", "withdrawal"}

\* datetime values, and Optional[datetime]
Times == 1..MaxTime

OptTimes == {None} \cup {Some(t) : t \in Times}

\* Decimal column values, in cents
Cents == 0..MaxCents

-----------------------------------------------------------------------------
(* Request schemas (table=False): each Errors operator gives the set of    *)
(* fields whose Field constraint the input fails; the input is accepted    *)
(* when the set is empty.  Decimal inputs are in thousandths, string       *)
(* inputs are given by their length.                                       *)

MinPasswordLen == 8

MaxPasswordLen == 255

MaxUsernameLen == 50

\* Field(decimal_places=2): at most two fractional digits
DecimalPlaces2 == 10

DecimalPlacesOk(v) == v % DecimalPlaces2 = 0

\* Field(ge=1) on quantity
QuantityOk(q) == q >= 1

\* Field(ge=0) on price and stock_quantity
NonNegativeOk(v) == v >= 0

\* gt written as ge: amount = 0 would be accepted
AmountGe0(v) == v >= 0

\* Field(gt=0) on amount
AmountOk(v) == v > 0

PasswordOk(n) == n >= MinPasswordLen /\ n <= MaxPasswordLen

OrderItemCreateErrors(r) ==
    IF QuantityOk(r.quantity) THEN {} ELSE {"quantity"}

ProductCreateErrors(r) ==
    (IF DecimalPlacesOk(r.price) /\ NonNegativeOk(r.price) THEN {} ELSE {"price"})
    \cup (IF r.stock_quantity = None \/ NonNegativeOk(Get(r.stock_quantity))
          THEN {} ELSE {"stock_quantity"})

ProductUpdateErrors(r) ==
    (IF r.price = None \/ (DecimalPlacesOk(Get(r.price)) /\ NonNegativeOk(Get(r.price)))
     THEN {} ELSE {"price"})
    \cup (IF r.stock_quantity = None \/ NonNegativeOk(Get(r.stock_quantity))
          THEN {} ELSE {"stock_quantity"})

PaymentCreateErrors(r) ==
    IF DecimalPlacesOk(r.amount) /\ AmountOk(r.amount) THEN {} ELSE {"amount"}

WalletDepositErrors(r) ==
    IF DecimalPlacesOk(r.amount) /\ AmountOk(r.amount) THEN {} ELSE {"amount"}

UserCreateErrors(r) ==
    (IF PasswordOk(r.password) THEN {} ELSE {"password"})
    \cup (IF r.username <= MaxUsernameLen THEN {} ELSE {"username"})

\* OrderCreate: every field is Optional with default None and no constraint
\* relates user_id to the guest fields.
OrderCreateErrors(r) == {}

\* OrderUpdate.status is Optional[OrderStatus]: any member, or None.
OrderUpdateErrors(r) ==
    IF r.status = None \/ Get(r.status) \in OrderStatus THEN {} ELSE {"status"}

\* PaymentCallback.status is a PaymentStatus: any member.
PaymentCallbackErrors(r) ==
    IF r.status \in PaymentStatus THEN {} ELSE {"status"}

-----------------------------------------------------------------------------
(* Inputs of the validation actions.                                       *)

Mills == (0 - MaxMills)..MaxMills

Quantities == (0 - 1)..MaxQuantity

OptStock == {None} \cup {Some(n) : n \in (0 - 1)..1}

PasswordLens == {0, MinPasswordLen - 1, MinPasswordLen, MaxPasswordLen, MaxPasswordLen + 1}

UsernameLens == {1, MaxUsernameLen, MaxUsernameLen + 1}

NoRequest == [schema |-> "none", input |-> <<>>, errors |-> {}]

ValidateOrderItemCreate ==
    \E q \in Quantities :
        LET r == [product_id |-> 1, quantity |-> q] IN
        validated' = [schema |-> "OrderItemCreate", input |-> r,
                      errors |-> OrderItemCreateErrors(r)]

ValidateProductCreate ==
    \E p \in Mills, s \in OptStock :
        LET r == [price |-> p, stock_quantity |-> s] IN
        validated' = [schema |-> "ProductCreate", input |-> r,
                      errors |-> ProductCreateErrors(r)]

ValidateProductUpdate ==
    \E p \in {None} \cup {Some(m) : m \in Mills}, s \in OptStock :
        LET r == [price |-> p, stock_quantity |-> s] IN
        validated' = [schema |-> "ProductUpdate", input |-> r,
                      errors |-> ProductUpdateErrors(r)]

ValidatePaymentCreate ==
    \E a \in Mills :
        LET r == [order_id |-> 1, amount |-> a] IN
        validated' = [schema |-> "PaymentCreate", input |-> r,
                      errors |-> PaymentCreateErrors(r)]

ValidateWalletDeposit ==
    \E a \in Mills :
        LET r == [amount |-> a] IN
        validated' = [schema |-> "WalletDeposit", input |-> r,
                      errors |-> WalletDepositErrors(r)]

ValidateUserCreate ==
    \E n \in PasswordLens, u \in UsernameLens :
        LET r == [password |-> n, username |-> u] IN
        validated' = [schema |-> "UserCreate", input |-> r,
                      errors |-> UserCreateErrors(r)]

tables == <<users, orders, order_items, voucher_codes, payments,
            wallet_transactions, requests>>

Init ==
    /\ users = <<>>
    /\ orders = <<>>
    /\ order_items = <<>>
    /\ voucher_codes = <<>>
    /\ payments = <<>>
    /\ wallet_transactions = <<>>
    /\ requests = <<>>
    /\ validated = NoRequest

NextValidate ==
    /\ UNCHANGED tables
    /\ \/ ValidateOrderItemCreate
       \/ ValidateProductCreate
       \/ ValidateProductUpdate
       \/ ValidatePaymentCreate
       \/ ValidateWalletDeposit
       \/ ValidateUserCreate

SpecValidate == Init /\ [][NextValidate]_vars

-----------------------------------------------------------------------------
(* Table rows as the column defaults create them.                          *)

\* User: wallet_balance defaults to Decimal("0")
NewUser == [wallet_balance |-> 0]

\* Order: status defaults to pending; user_id, guest_email and guest_phone
\* are copied from the request; total_amount is a required column
NewOrder(c, total) ==
    [user_id |-> c.user_id, guest_email |-> c.guest_email,
     guest_phone |-> c.guest_phone, status |-> "pending", total_amount |-> total]

\* OrderItem: unit_price and total_price are required columns, is_delivered
\* defaults to False
NewOrderItem(o, r, unit, total) ==
    [order_id |-> o, product_id |-> r.product_id, quantity |-> r.quantity,
     unit_price |-> unit, total_price |-> total, is_delivered |-> FALSE]

\* VoucherCode: is_used False, used_at None, order_item_id None
NewVoucherCode == [is_used |-> FALSE, used_at |-> None, order_item_id |-> None]

\* Payment: status defaults to pending, expires_at and paid_at to None;
\* amount in cents
NewPayment(r) ==
    [order_id |-> r.order_id, status |-> "pending",
     amount |-> r.amount \div DecimalPlaces2, expires_at |-> None, paid_at |-> None]

\* WalletTransaction: every column is supplied by the writer
NewWalletTransaction(u, t, a, before, after) ==
    [user_id |-> u, transaction_type |-> t, amount |-> a,
     balance_before |-> before, balance_after |-> after]

Ids(table) == 1..Len(table)

\* Optional foreign key into a table
OptIds(table) == {None} \cup {Some(i) : i \in Ids(table)}

-----------------------------------------------------------------------------
(* A store holding one registered user, and one holding an order as well.  *)

GuestOrderCreate ==
    [user_id |-> None, guest_email |-> Some("guest@example.com"), guest_phone |-> None]

InitUser ==
    /\ users = <<NewUser>>
    /\ orders = <<>>
    /\ order_items = <<>>
    /\ voucher_codes = <<>>
    /\ payments = <<>>
    /\ wallet_transactions = <<>>
    /\ requests = <<>>
    /\ validated = NoRequest

InitOrder ==
    /\ users = <<NewUser>>
    /\ orders = <<NewOrder(GuestOrderCreate, 1)>>
    /\ order_items = <<>>
    /\ voucher_codes = <<>>
    /\ payments = <<>>
    /\ wallet_transactions = <<>>
    /\ requests = <<>>
    /\ validated = NoRequest

-----------------------------------------------------------------------------
(* Orders.                                                                 *)

OrderCreates ==
    { [user_id |-> u, guest_email |-> e, guest_phone |-> p] :
        u \in {None, Some(1)},
        e \in {None, Some("guest@example.com")},
        p \in {None, Some("0812")} }

OrderUpdates == [status : {None} \cup {Some(s) : s \in OrderStatus}]

\* An Order is created from an accepted OrderCreate; user_id, when given,
\* references an existing user.
CreateOrder ==
    \E c \in OrderCreates, total \in Cents :
        /\ Len(orders) < MaxOrders
        /\ OrderCreateErrors(c) = {}
        /\ c.user_id \in OptIds(users)
        /\ orders' = Append(orders, NewOrder(c, total))
        /\ UNCHANGED <<users, order_items, voucher_codes, payments,
                       wallet_transactions, requests, validated>>

\* An accepted OrderUpdate is written to its Order: status is stored when
\* the update carries one.
ApplyOrderUpdate ==
    \E o \in Ids(orders), u \in OrderUpdates :
        /\ OrderUpdateErrors(u) = {}
        /\ orders' = IF u.status = None THEN orders
                     ELSE [orders EXCEPT ![o].status = Get(u.status)]
        /\ UNCHANGED <<users, order_items, voucher_codes, payments,
                       wallet_transactions, requests, validated>>

\* An OrderItem is added from an accepted OrderItemCreate; Order.total_amount
\* is a column of another row and is not written.
AddOrderItem ==
    \E o \in Ids(orders), q \in 1..MaxQuantity, unit \in 1..MaxCents, total \in Cents :
        LET r == [product_id |-> 1, quantity |-> q] IN
        /\ Len(order_items) < MaxItems
        /\ OrderItemCreateErrors(r) = {}
        /\ order_items' = Append(order_items, NewOrderItem(o, r, unit, total))
        /\ UNCHANGED <<users, orders, voucher_codes, payments,
                       wallet_transactions, requests, validated>>

NextOrder == CreateOrder \/ ApplyOrderUpdate

SpecOrder == InitUser /\ [][NextOrder]_vars

NextItems == CreateOrder \/ AddOrderItem

SpecItems == InitUser /\ [][NextItems]_vars

-----------------------------------------------------------------------------
(* Payments.                                                               *)

PaymentCreates == [order_id : {1}, amount : {m \in Mills : m % DecimalPlaces2 = 0}]

PaymentCallbacks == [payment_reference : 1..MaxPayments, status : PaymentStatus]

\* A Payment is created from an accepted PaymentCreate for an existing order.
CreatePayment ==
    \E r \in PaymentCreates :
        /\ Len(payments) < MaxPayments
        /\ PaymentCreateErrors(r) = {}
        /\ r.order_id \in Ids(orders)
        /\ payments' = Append(payments, NewPayment(r))
        /\ UNCHANGED <<users, orders, order_items, voucher_codes,
                       wallet_transactions, requests, validated>>

\* An accepted PaymentCallback is written to the Payment its reference
\* names: the status column takes the callback's status.
ApplyPaymentCallback ==
    \E cb \in PaymentCallbacks :
        /\ PaymentCallbackErrors(cb) = {}
        /\ cb.payment_reference \in Ids(payments)
        /\ payments' = [payments EXCEPT ![cb.payment_reference].status = cb.status]
        /\ UNCHANGED <<users, orders, order_items, voucher_codes,
                       wallet_transactions, requests, validated>>

\* paid_at is an Optional[datetime] column of its own.
WritePaidAt ==
    \E p \in Ids(payments), t \in OptTimes :
        /\ payments' = [payments EXCEPT ![p].paid_at = t]
        /\ UNCHANGED <<users, orders, order_items, voucher_codes,
                       wallet_transactions, requests, validated>>

\* expires_at is an Optional[datetime] column of its own.
WriteExpiresAt ==
    \E p \in Ids(payments), t \in OptTimes :
        /\ payments' = [payments EXCEPT ![p].expires_at = t]
        /\ UNCHANGED <<users, orders, order_items, voucher_codes,
                       wallet_transactions, requests, validated>>

\* Reading attribute a of a Payment row: the value of the column of that
\* name, and no value (an AttributeError) when the class declares none.
PaymentAttr(row, a) == IF a \in DOMAIN row THEN Some(row[a]) ELSE None

NextPayment == CreatePayment \/ ApplyPaymentCallback \/ WritePaidAt

NextExpiry == CreatePayment \/ ApplyPaymentCallback \/ WriteExpiresAt

SpecExpiry == InitOrder /\ [][NextExpiry]_vars

SpecPayment == InitOrder /\ [][NextPayment]_vars

-----------------------------------------------------------------------------
(* Wallet ledger.                                                          *)

SignedCents == (0 - MaxCents)..MaxCents

\* A WalletTransaction row is inserted for an existing user.
InsertWalletTransaction ==
    \E u \in Ids(users), t \in TransactionType, a \in 1..MaxCents,
       before \in Cents, after \in SignedCents :
        /\ Len(wallet_transactions) < MaxLedger
        /\ wallet_transactions' =
               Append(wallet_transactions, NewWalletTransaction(u, t, a, before, after))
        /\ UNCHANGED <<users, orders, order_items, voucher_codes, payments,
                       requests, validated>>

\* User.wallet_balance is a Decimal column of the users table.
WriteWalletBalance ==
    \E u \in Ids(users), b \in SignedCents :
        /\ users' = [users EXCEPT ![u].wallet_balance = b]
        /\ UNCHANGED <<orders, order_items, voucher_codes, payments,
                       wallet_transactions, requests, validated>>

NextWallet == InsertWalletTransaction \/ WriteWalletBalance

SpecWallet == InitUser /\ [][NextWallet]_vars

-----------------------------------------------------------------------------
(* Voucher codes.                                                          *)

ItemCreate == [product_id |-> 1, quantity |-> 1]

InitItem ==
    /\ users = <<NewUser>>
    /\ orders = <<NewOrder(GuestOrderCreate, 1)>>
    /\ order_items = <<NewOrderItem(1, ItemCreate, 1, 1)>>
    /\ voucher_codes = <<>>
    /\ payments = <<>>
    /\ wallet_transactions = <<>>
    /\ requests = <<>>
    /\ validated = NoRequest

\* A VoucherCode is created from a VoucherCodeCreate (product_id, code,
\* serial_number): the other columns take their defaults.
CreateVoucherCode ==
    /\ Len(voucher_codes) < MaxCodes
    /\ voucher_codes' = Append(voucher_codes, NewVoucherCode)
    /\ UNCHANGED <<users, orders, order_items, payments, wallet_transactions,
                   requests, validated>>

\* is_used, used_at and order_item_id are three columns of a VoucherCode
\* row; order_item_id, when set, references an existing OrderItem.
WriteVoucherCode ==
    \E c \in Ids(voucher_codes), used \in BOOLEAN, t \in OptTimes,
       i \in OptIds(order_items) :
        /\ voucher_codes' = [voucher_codes EXCEPT
               ![c] = [is_used |-> used, used_at |-> t, order_item_id |-> i]]
        /\ UNCHANGED <<users, orders, order_items, payments, wallet_transactions,
                       requests, validated>>

NextVoucher == CreateVoucherCode \/ WriteVoucherCode

SpecVoucher == InitItem /\ [][NextVoucher]_vars

-----------------------------------------------------------------------------
(* Concurrent reservation requests, one per OrderItem, against the unused  *)
(* codes of one product.  A request reads a row with is_used = false and   *)
(* then writes it; VoucherCode declares no version column, unique          *)
(* constraint or lock, so the read and the write are separate steps.       *)

NewRequest == [pc |-> "start", code |-> None]

InitReserve ==
    \E n \in 1..MaxCodes, m \in 1..MaxRequests :
        /\ users = <<NewUser>>
        /\ orders = <<NewOrder(GuestOrderCreate, 1)>>
        /\ order_items = [i \in 1..m |-> NewOrderItem(1, ItemCreate, 1, 1)]
        /\ voucher_codes = [c \in 1..n |-> NewVoucherCode]
        /\ payments = <<>>
        /\ wallet_transactions = <<>>
        /\ requests = [i \in 1..m |-> NewRequest]
        /\ validated = NoRequest

Unused == {c \in Ids(voucher_codes) : ~voucher_codes[c].is_used}

\* The request reads an unused code of the product.
SelectVoucher ==
    \E i \in Ids(requests), c \in Unused :
        /\ requests[i].pc = "start"
        /\ requests' = [requests EXCEPT ![i] = [pc |-> "selected", code |-> Some(c)]]
        /\ UNCHANGED <<users, orders, order_items, voucher_codes, payments,
                       wallet_transactions, validated>>

\* The read finds no unused code: the request ends without one.
NoVoucher ==
    \E i \in Ids(requests) :
        /\ requests[i].pc = "start"
        /\ Unused = {}
        /\ requests' = [requests EXCEPT ![i].pc = "out_of_stock"]
        /\ UNCHANGED <<users, orders, order_items, voucher_codes, payments,
                       wallet_transactions, validated>>

\* The request writes the code it read: is_used, used_at, order_item_id,
\* and the OrderItem's is_delivered.
CommitVoucher ==
    \E i \in Ids(requests), t \in Times :
        /\ requests[i].pc = "selected"
        /\ voucher_codes' = [voucher_codes EXCEPT ![Get(requests[i].code)] =
               [is_used |-> TRUE, used_at |-> Some(t), order_item_id |-> Some(i)]]
        /\ order_items' = [order_items EXCEPT ![i].is_delivered = TRUE]
        /\ requests' = [requests EXCEPT ![i].pc = "reserved"]
        /\ UNCHANGED <<users, orders, payments, wallet_transactions, validated>>

NextReserve == SelectVoucher \/ NoVoucher \/ CommitVoucher

SpecReserve == InitReserve /\ [][NextReserve]_vars

-----------------------------------------------------------------------------
(* The claims.                                                             *)

OrderTransitions ==
    { <<"pending", "processing">>, <<"pending", "cancelled">>, <<"pending", "failed">>,
      <<"processing", "completed">>, <<"processing", "failed">>,
      <<"processing", "cancelled">>, <<"completed", "refunded">> }

PaymentTransitions ==
    { <<"pending", "paid">>, <<"pending", "failed">>, <<"pending", "cancelled">>,
      <<"paid", "refunded">> }

\* C1: every change of an Order's status is a transition of the table
\* pending->processing, pending->cancelled, pending->failed,
\* processing->completed, processing->failed, processing->cancelled,
\* completed->refunded; any other update leaves the status unchanged.
C1_OrderStatusFollowsTable ==
    [][\A o \in Ids(orders) :
          orders'[o].status # orders[o].status
              => <<orders[o].status, orders'[o].status>> \in OrderTransitions]_vars

Finished == \A i \in Ids(requests) : requests[i].pc \in {"reserved", "out_of_stock"}

Reserved == {i \in Ids(requests) : requests[i].pc = "reserved"}

Min(a, b) == IF a <= b THEN a ELSE b

\* C2: with N unused codes and M concurrent reservation requests, once all
\* requests have ended exactly min(N, M) have succeeded, each success is
\* linked to a code of its own, and every other request ended out of stock
\* with its OrderItem undelivered.
C2_ReservationExclusive ==
    (requests # <<>> /\ Finished) =>
        /\ Cardinality(Reserved) = Min(Len(voucher_codes), Len(requests))
        /\ \A i, j \in Reserved : i # j => requests[i].code # requests[j].code
        /\ \A i \in Reserved :
               voucher_codes[Get(requests[i].code)].order_item_id = Some(i)
        /\ \A i \in Ids(requests) \ Reserved : ~order_items[i].is_delivered

Debits == {"purchase", "withdrawal"}

LastRow == wallet_transactions'[Len(wallet_transactions')]

\* C3: a purchase or withdrawal whose amount exceeds the user's current
\* wallet_balance adds no WalletTransaction row and leaves wallet_balance
\* as it was.
C3_InsufficientBalanceWritesNothing ==
    [][Len(wallet_transactions') > Len(wallet_transactions)
          => ~(/\ LastRow.transaction_type \in Debits
               /\ LastRow.amount > users[LastRow.user_id].wallet_balance)]_vars

RowsOf(u) == {k \in Ids(wallet_transactions) : wallet_transactions[k].user_id = u}

Latest(u) == wallet_transactions[CHOOSE k \in RowsOf(u) : \A j \in RowsOf(u) : j <= k]

Signed(row) ==
    IF row.transaction_type \in Debits THEN 0 - row.amount ELSE row.amount

\* C4: a user with at least one WalletTransaction has wallet_balance equal
\* to the balance_after of the latest one, and every WalletTransaction has
\* balance_after = balance_before + amount for deposit and refund,
\* balance_before - amount for purchase and withdrawal.
C4_BalanceMatchesLedger ==
    /\ \A u \in Ids(users) :
           RowsOf(u) # {} => users[u].wallet_balance = Latest(u).balance_after
    /\ \A k \in Ids(wallet_transactions) :
           wallet_transactions[k].balance_after
               = wallet_transactions[k].balance_before + Signed(wallet_transactions[k])

\* C5: every User's wallet_balance is greater than or equal to zero.
C5_BalanceNonNegative ==
    \A u \in Ids(users) : users[u].wallet_balance >= 0

\* C6: every change of a Payment's status is a transition of the table
\* pending->paid, pending->failed, pending->cancelled, paid->refunded, and
\* paid_at is set exactly when the Payment enters paid: a new Payment has
\* none, entering paid sets it, and nothing else changes it.
C6_PaymentStatusFollowsTable ==
    [][/\ \A p \in Ids(payments) :
              LET old == payments[p]
                  new == payments'[p]
                  enters == old.status # "paid" /\ new.status = "paid"
              IN  /\ new.status # old.status
                        => <<old.status, new.status>> \in PaymentTransitions
                  /\ enters => new.paid_at # None
                  /\ new.paid_at # old.paid_at => enters
       /\ \A p \in Ids(payments') \ Ids(payments) : payments'[p].paid_at = None]_vars

\* C7: a VoucherCode has is_used = true if and only if both used_at and
\* order_item_id are set, and is_used never goes back from true to false.
C7_VoucherUsedConsistent ==
    [][/\ \A c \in Ids(voucher_codes') :
              voucher_codes'[c].is_used
                  <=> (voucher_codes'[c].used_at # None
                       /\ voucher_codes'[c].order_item_id # None)
       /\ \A c \in Ids(voucher_codes) :
              voucher_codes[c].is_used => voucher_codes'[c].is_used]_vars

RECURSIVE SumTotalPrice(_, _)
SumTotalPrice(o, n) ==
    IF n = 0 THEN 0
    ELSE SumTotalPrice(o, n - 1)
         + (IF order_items[n].order_id = o THEN order_items[n].total_price ELSE 0)

\* C8: every Order's total_amount is the sum of total_price over its
\* OrderItems, and every OrderItem has unit_price * quantity = total_price.
C8_TotalsAdd ==
    /\ \A o \in Ids(orders) :
           orders[o].total_amount = SumTotalPrice(o, Len(order_items))
    /\ \A n \in Ids(order_items) :
           order_items[n].unit_price * order_items[n].quantity
               = order_items[n].total_price

\* C9: every Order is a user order (user_id set, no guest contact) or a
\* guest order (user_id absent, guest_email or guest_phone present), never
\* neither and never both.
C9_UserOrGuest ==
    \A o \in Ids(orders) :
        LET user == orders[o].user_id # None
            guest == orders[o].guest_email # None \/ orders[o].guest_phone # None
        IN  (user /\ ~guest) \/ (~user /\ guest)

\* The current time ranges over the stored times and one later instant.
Nows == 1..(MaxTime + 1)

\* C11: a Payment exposes expired, and a Payment whose status is pending
\* and whose expires_at is earlier than the current time reports
\* expired = true.
C11_PendingPastDeadlineReportsExpired ==
    \A p \in Ids(payments), now \in Nows :
        (/\ payments[p].status = "pending"
         /\ payments[p].expires_at # None
         /\ Get(payments[p].expires_at) < now)
            => PaymentAttr(payments[p], "expired") = Some(TRUE)

-----------------------------------------------------------------------------
\* C10: request validation reports the offending field for quantity < 1,
\* price < 0, amount <= 0 and a password shorter than 8 characters, and
\* accepts the boundary values quantity = 1 and price = 0 (amount = 0 is
\* rejected); a field that meets its constraint is not reported.
C10_ValidationPerField ==
    LET r == validated.input
        e == validated.errors
    IN  /\ validated.schema = "OrderItemCreate" =>
              /\ r.quantity < 1 => e = {"quantity"}
              /\ r.quantity >= 1 => e = {}
        /\ validated.schema = "ProductCreate" =>
              /\ r.price < 0 => "price" \in e
              /\ r.price = 0 => "price" \notin e
              /\ e \subseteq {"price", "stock_quantity"}
        /\ validated.schema = "ProductUpdate" =>
              /\ (r.price # None /\ Get(r.price) < 0) => "price" \in e
              /\ r.price \in {None, Some(0)} => "price" \notin e
              /\ e \subseteq {"price", "stock_quantity"}
        /\ validated.schema \in {"PaymentCreate", "WalletDeposit"} =>
              /\ r.amount <= 0 => e = {"amount"}
              /\ (r.amount > 0 /\ r.amount % 10 = 0) => e = {}
        /\ validated.schema = "UserCreate" =>
              /\ r.password < 8 => "password" \in e
              /\ r.password = 8 => "password" \notin e
              /\ e \subseteq {"password", "username"}

C10_Witness ==
    /\ validated.schema = "PaymentCreate"
    /\ validated.input.amount = 0
    /\ validated.errors = {"amount"}

====
